---- MODULE Spec2Model ----
(***************************************************************************)
(* Model of the GAIA evaluation harness of lead_agent:                     *)
(*   evaluation/benchmarks/gaia/quasi_exact_match.py  (matching engine)    *)
(*   evaluation/benchmarks/gaia/metrics.py            (GAIAMetrics)        *)
(*   evaluation/benchmarks/gaia/evaluator.py          (GAIAEvaluator)      *)
(*   evaluation/tools/gaia_evaluation_tool.py         (GAIAEvaluationTool) *)
(*                                                                         *)
(* Texts are sequences of one-character strings.  Numbers are decimals     *)
(* m / 10^e.  A Python value is a record [kind, m, e, text, items]; None   *)
(* and a present value of an optional are the sequences <<>> and <<x>>.    *)
(***************************************************************************)
EXTENDS Integers, Sequences, FiniteSets, TLC

(***************************************************************************)
(* Bounds of the model                                                     *)
(***************************************************************************)
\* longest corpus the loader hands out
MaxN == 2
\* number of top-level API calls in one behaviour
MaxCalls == 2
\* longest batch handed to the static GAIAMetrics functions
MaxBatch == 2

(***************************************************************************)
(* Characters                                                              *)
(***************************************************************************)
UpperCase == <<"A","B","C","D","E","F","G","H","I","J","K","L","M",
               "N","O","P","Q","R","S","T","U","V","W","X","Y","Z">>

LowerCase == <<"a","b","c","d","e","f","g","h","i","j","k","l","m",
               "n","o","p","q","r","s","t","u","v","w","x","y","z">>

DigitChars == <<"0","1","2","3","4","5","6","7","8","9">>

\* the characters of the model in code point order
CodePoints == <<" ","!","\"","$","%","'","(",")",",","-",".">> \o DigitChars
              \o <<":",";","?">> \o UpperCase \o <<"[","\\","]","_">> \o LowerCase
              \o <<"{","}">>

Range(f) == {f[k] : k \in DOMAIN f}

Ord(c) == CHOOSE k \in DOMAIN CodePoints : CodePoints[k] = c

DigitSet == Range(DigitChars)

UpperSet == Range(UpperCase)

WordCharSet == Range(UpperCase) \cup Range(LowerCase) \cup Range(DigitChars) \cup {"_"}

IsDigit(c) == c \in DigitSet

DigitVal(c) == (CHOOSE k \in DOMAIN DigitChars : DigitChars[k] = c) - 1

IsSpace(c) == c = " "

\* \w of the re module
IsWordChar(c) == c \in WordCharSet

\* the class [.,!?;:]
IsEndPunct(c) == c \in {".", ",", "!", "?", ";", ":"}

LowerChar(c) ==
    IF c \in UpperSet
    THEN LowerCase[CHOOSE k \in DOMAIN UpperCase : UpperCase[k] = c]
    ELSE c

\* str.lower()
Lower(s) == [k \in DOMAIN s |-> LowerChar(s[k])]

(***************************************************************************)
(* Decimals and values                                                     *)
(***************************************************************************)
RECURSIVE Pow10(_)
Pow10(k) == IF k = 0 THEN 1 ELSE 10 * Pow10(k - 1)

Abs(x) == IF x < 0 THEN -x ELSE x

Max2(a, b) == IF a >= b THEN a ELSE b

Min2(a, b) == IF a <= b THEN a ELSE b

Dec(m, e) == [m |-> m, e |-> e]

\* variant: the comparison is reversed
AbsDiffGeq(a, b, t) ==
    LET E == Max2(Max2(a.e, b.e), t.e)
        A == a.m * Pow10(E - a.e)
        B == b.m * Pow10(E - b.e)
        T == t.m * Pow10(E - t.e)
    IN  Abs(A - B) >= T

\* abs(a - b) <= t on decimals a, b, t
AbsDiffLeq(a, b, t) ==
    LET E == Max2(Max2(a.e, b.e), t.e)
        A == a.m * Pow10(E - a.e)
        B == b.m * Pow10(E - b.e)
        T == t.m * Pow10(E - t.e)
    IN  Abs(A - B) <= T

NoneV == [kind |-> "none", m |-> 0, e |-> 0, text |-> <<>>, items |-> <<>>]

Str(s) == [kind |-> "str", m |-> 0, e |-> 0, text |-> s, items |-> <<>>]

IntV(n) == [kind |-> "int", m |-> n, e |-> 0, text |-> <<>>, items |-> <<>>]

FloatV(m, e) == [kind |-> "float", m |-> m, e |-> e, text |-> <<>>, items |-> <<>>]

\* float('inf') for sign = 1 and float('-inf') for sign = -1
InfV(sign) == [kind |-> "inf", m |-> sign, e |-> 0, text |-> <<>>, items |-> <<>>]

\* float('nan')
NanV == [kind |-> "nan", m |-> 0, e |-> 0, text |-> <<>>, items |-> <<>>]

\* a list of scalar values
ListV(l) == [kind |-> "list", m |-> 0, e |-> 0, text |-> <<>>, items |-> l]

\* a set of scalar values, in its iteration order
SetV(l) == [kind |-> "set", m |-> 0, e |-> 0, text |-> <<>>, items |-> l]

\* a dict with str keys and scalar values: its <<key, value>> pairs in insertion order
DictV(pairs) == [kind |-> "dict", m |-> 0, e |-> 0, text |-> <<>>, items |-> pairs]

IsNone(v) == v.kind = "none"

\* isinstance(v, (int, float))
IsNumeric(v) == v.kind \in {"int", "float", "inf", "nan"}

\* an int, or a float that is neither an infinity nor a NaN
IsFinite(v) == v.kind \in {"int", "float"}

\* isinstance(v, (list, set))
IsCollection(v) == v.kind \in {"list", "set"}

\* isinstance(v, dict)
IsDict(v) == v.kind = "dict"

IsStr(v) == v.kind = "str"

DecOf(v) == Dec(v.m, v.e)

None == <<>>

Some(x) == <<x>>

(***************************************************************************)
(* Evaluation helpers                                                      *)
(***************************************************************************)
\* the element of a one-element set; The({F(v) : v \in {e}}) is F at the value of e
The(S) == CHOOSE r \in S : TRUE

SetMax(K) == CHOOSE k \in K : \A j \in K : j <= k

SetMin(K) == CHOOSE k \in K : \A j \in K : k <= j

\* the i-th smallest element of the set K of numbers
Nth(K, i) == CHOOSE k \in K : Cardinality({j \in K : j <= k}) = i

\* the subsequence of s at the positions in K
Pick(s, K) == [i \in 1..Cardinality(K) |-> s[Nth(K, i)]]

(***************************************************************************)
(* str() of a number                                                       *)
(***************************************************************************)
RECURSIVE NatStr(_)
NatStr(n) == IF n < 10 THEN <<DigitChars[n + 1]>>
             ELSE NatStr(n \div 10) \o <<DigitChars[(n % 10) + 1]>>

RECURSIVE PadZeros(_, _)
PadZeros(s, w) == IF Len(s) >= w THEN s ELSE PadZeros(<<"0">> \o s, w)

\* str(int) and str(float) for a decimal without superfluous trailing zeros
NumStr(v) ==
    LET sign == IF v.m < 0 THEN <<"-">> ELSE <<>>
        a    == Abs(v.m)
    IN  IF v.kind = "int" THEN sign \o NatStr(a)
        ELSE IF v.e = 0 THEN sign \o NatStr(a) \o <<".", "0">>
        ELSE sign \o NatStr(a \div Pow10(v.e)) \o <<".">>
                  \o PadZeros(NatStr(a % Pow10(v.e)), v.e)

\* str(x) of a scalar
ScalarStr(v) ==
    CASE v.kind = "str"  -> v.text
      [] v.kind = "none" -> <<"N","o","n","e">>
      [] v.kind = "inf"  -> IF v.m < 0 THEN <<"-","i","n","f">> ELSE <<"i","n","f">>
      [] v.kind = "nan"  -> <<"n","a","n">>
      [] OTHER           -> NumStr(v)

\* sep.join(l)
JoinWith(l, sep) ==
    LET joined[k \in 0..Len(l)] ==
            IF k = 0 THEN <<>>
            ELSE IF k = 1 THEN l[1]
            ELSE joined[k - 1] \o sep \o l[k]
    IN  joined[Len(l)]

\* repr(x) of a scalar; a str without backslashes or control characters is
\* quoted with " when it contains ' and no ", else with ' and every ' escaped
Repr(v) ==
    IF v.kind # "str" THEN ScalarStr(v)
    ELSE IF (\E k \in DOMAIN v.text : v.text[k] = "'")
               /\ ~(\E k \in DOMAIN v.text : v.text[k] = "\"")
         THEN <<"\"">> \o v.text \o <<"\"">>
         ELSE <<"'">> \o JoinWith([k \in DOMAIN v.text |->
                                     IF v.text[k] = "'" THEN <<"\\", "'">>
                                     ELSE <<v.text[k]>>], <<>>) \o <<"'">>

\* str(x)
StrOf(v) ==
    CASE v.kind = "list" ->
             <<"[">> \o JoinWith([k \in DOMAIN v.items |-> Repr(v.items[k])], <<",", " ">>)
                     \o <<"]">>
      [] v.kind = "set" ->
             IF v.items = <<>> THEN <<"s","e","t","(",")">>
             ELSE <<"{">> \o JoinWith([k \in DOMAIN v.items |-> Repr(v.items[k])],
                                      <<",", " ">>) \o <<"}">>
      [] v.kind = "dict" ->
             <<"{">> \o JoinWith([k \in DOMAIN v.items |->
                                     Repr(Str(v.items[k][1])) \o <<":", " ">>
                                         \o Repr(v.items[k][2])], <<",", " ">>)
                     \o <<"}">>
      [] OTHER -> ScalarStr(v)

(***************************************************************************)
(* normalize_string                                                        *)
(***************************************************************************)
\* \b before position p of s
Boundary(s, p) ==
    ((p > 1) /\ (p - 1 <= Len(s)) /\ IsWordChar(s[p - 1]))
        # ((p <= Len(s)) /\ IsWordChar(s[p]))

Articles == << <<"a">>, <<"a","n">>, <<"t","h","e">> >>

WordAt(s, p, w) ==
    /\ p + Len(w) - 1 <= Len(s)
    /\ SubSeq(s, p, p + Len(w) - 1) = w
    /\ Boundary(s, p + Len(w))

\* number of consecutive whitespace characters of s from position p
SpacesFrom(s, p) ==
    (CHOOSE q \in p..(Len(s) + 1) :
        /\ (q = Len(s) + 1 \/ ~IsSpace(s[q]))
        /\ \A j \in p..(q - 1) : IsSpace(s[j])) - p

\* length of the match of \b(a|an|the)\b\s* at position p, 0 when there is none
ArticleMatchLen(s, p) ==
    IF ~Boundary(s, p) THEN 0
    ELSE IF \E k \in DOMAIN Articles : WordAt(s, p, Articles[k])
         THEN LET k == CHOOSE j \in DOMAIN Articles :
                          /\ WordAt(s, p, Articles[j])
                          /\ \A i \in 1..(j - 1) : ~WordAt(s, p, Articles[i])
              IN  Len(Articles[k]) + SpacesFrom(s, p + Len(Articles[k]))
         ELSE 0

\* positions of s inside a match of \b(a|an|the)\b\s*; the matches cannot overlap
ArticlePositions(s) ==
    {k \in DOMAIN s : \E p \in 1..k : k < p + ArticleMatchLen(s, p)}

\* re.sub(r'\b(a|an|the)\b\s*', '', s)
RemoveArticles(s) == The({Pick(s, K) : K \in {DOMAIN s \ ArticlePositions(s)}})

\* re.sub(r'\s+', ' ', s)
CollapseSpaces(s) ==
    The({Pick(s, K) :
            K \in {{k \in DOMAIN s : ~(IsSpace(s[k]) /\ k > 1 /\ IsSpace(s[k - 1]))}}})

\* str.strip()
Strip(s) ==
    LET ns == {k \in DOMAIN s : ~IsSpace(s[k])}
    IN  IF ns = {} THEN <<>> ELSE SubSeq(s, SetMin(ns), SetMax(ns))

\* re.sub(r'[.,!?;:]+$', '', s)
StripEndPunct(s) ==
    LET np == {k \in DOMAIN s : ~IsEndPunct(s[k])}
    IN  IF np = {} THEN <<>> ELSE SubSeq(s, 1, SetMax(np))

normalize_string(s) ==
    The({StripEndPunct(stripped) : stripped \in
        {Strip(collapsed) : collapsed \in
            {CollapseSpaces(noart) : noart \in
                {RemoveArticles(lowered) : lowered \in {Lower(s)}}}}})

(***************************************************************************)
(* extract_number                                                          *)
(***************************************************************************)
HasDigit(s) == \E k \in DOMAIN s : IsDigit(s[k])

FirstDigit(s) == SetMin({k \in DOMAIN s : IsDigit(s[k])})

\* number of consecutive digits of s from position p
DigitsFrom(s, p) ==
    (CHOOSE q \in p..(Len(s) + 1) :
        /\ (q = Len(s) + 1 \/ ~IsDigit(s[q]))
        /\ \A j \in p..(q - 1) : IsDigit(s[j])) - p

\* the number written by the digits s[a..b], 0 when there are none
DigitsValue(s, a, b) ==
    LET v[k \in (a - 1)..b] == IF k < a THEN 0 ELSE 10 * v[k - 1] + DigitVal(s[k])
    IN  IF b < a THEN 0 ELSE v[b]

\* number of digits after the '.' that follows the ni digits at position d
FractionDigits(s, d, ni) ==
    IF d + ni <= Len(s) /\ s[d + ni] = "." THEN DigitsFrom(s, d + ni + 1) ELSE 0

\* float() of the match -?\d+\.?\d* with ni digits at d and nf fraction digits
NumberAt(s, d, ni, nf) ==
    LET neg == d > 1 /\ s[d - 1] = "-"
        mag == DigitsValue(s, d, d + ni - 1) * Pow10(nf)
                   + DigitsValue(s, d + ni + 1, d + ni + nf)
    IN  Dec(IF neg THEN -mag ELSE mag, nf)

\* re.search(r'-?\d+\.?\d*', s) and float() of the match: None or the decimal
extract_number(s) ==
    IF ~HasDigit(s) THEN None
    ELSE The({The({The({Some(NumberAt(s, d, ni, nf)) :
                             nf \in {FractionDigits(s, d, ni)}}) :
                        ni \in {DigitsFrom(s, d)}}) :
                   d \in {FirstDigit(s)}})

(***************************************************************************)
(* normalize_list                                                          *)
(***************************************************************************)
HasComma(s) == \E k \in DOMAIN s : s[k] = ","

\* the items between the cut positions K of s
ItemsBetween(s, K) ==
    [i \in 1..(Cardinality(K) - 1) |-> SubSeq(s, Nth(K, i) + 1, Nth(K, i + 1) - 1)]

\* str.split(',')
SplitComma(s) ==
    The({ItemsBetween(s, K) : K \in {{0, Len(s) + 1} \cup {k \in DOMAIN s : s[k] = ","}}})

\* a < b on str
TextLess(a, b) ==
    \E k \in 1..Len(b) :
        /\ k <= Len(a) + 1
        /\ \A j \in 1..(k - 1) : a[j] = b[j]
        /\ (k = Len(a) + 1 \/ Ord(a[k]) < Ord(b[k]))

\* position of l[i] in the sorted list
Rank(l, i) ==
    1 + Cardinality({j \in DOMAIN l : TextLess(l[j], l[i]) \/ (l[j] = l[i] /\ j < i)})

\* list.sort() on a list of str
SortTexts(l) == [r \in DOMAIN l |-> l[CHOOSE i \in DOMAIN l : Rank(l, i) = r]]

\* ','.join(items)
JoinComma(l) ==
    LET joined[k \in 0..Len(l)] ==
            IF k = 0 THEN <<>>
            ELSE IF k = 1 THEN l[1]
            ELSE joined[k - 1] \o <<",">> \o l[k]
    IN  joined[Len(l)]

NormalizeItems(items) == [k \in DOMAIN items |-> normalize_string(Strip(items[k]))]

\* variant: the normalized items are joined without sorting
normalize_list_unsorted(s) ==
    The({JoinComma(normalized_items) : normalized_items \in
            {NormalizeItems(items) : items \in {SplitComma(s)}}})

normalize_list(s) ==
    The({JoinComma(sorted) : sorted \in
        {SortTexts(normalized_items) : normalized_items \in
            {NormalizeItems(items) : items \in {SplitComma(s)}}}})

(***************************************************************************)
(* quasi_exact_match                                                       *)
(***************************************************************************)
\* variant: the comma-list rule is tried before the numbers
MatchTextsListFirst(p, g, pred_num, gt_num, tolerance) ==
    IF HasComma(p) /\ HasComma(g)
    THEN normalize_list(p) = normalize_list(g)
    ELSE IF pred_num # None /\ gt_num # None
    THEN AbsDiffLeq(pred_num[1], gt_num[1], tolerance)
    ELSE normalize_string(p) = normalize_string(g)

\* the branch for two str values: lines 149-166
MatchTexts(p, g, pred_num, gt_num, tolerance) ==
    IF pred_num # None /\ gt_num # None
    THEN AbsDiffLeq(pred_num[1], gt_num[1], tolerance)
    ELSE IF HasComma(p) /\ HasComma(g)
    THEN normalize_list(p) = normalize_list(g)
    ELSE normalize_string(p) = normalize_string(g)

\* abs(p - g) <= tolerance on Python numbers and a finite tolerance: with a NaN
\* or an infinity on either side the difference is a NaN or an infinity, and
\* the comparison is false
NumbersWithin(p, g, tolerance) ==
    IsFinite(p) /\ IsFinite(g) /\ AbsDiffLeq(DecOf(p), DecOf(g), tolerance)

\* the branches for one str and one number: lines 169-179
MatchTextNumber(text, number, text_num, tolerance) ==
    IF text_num # None
    THEN IsFinite(number) /\ AbsDiffLeq(text_num[1], DecOf(number), tolerance)
    ELSE normalize_string(text) = normalize_string(StrOf(number))

\* [normalize_string(str(item)) for item in l], sorted: lines 188-193
NormalizedSorted(l) ==
    The({SortTexts(normalized) :
            normalized \in {[k \in DOMAIN l |-> normalize_string(StrOf(l[k]))]}})

\* variant: the normalized elements are compared as sets
MatchCollectionsAsSets(pred_list, gt_list) ==
    Range(NormalizedSorted(pred_list)) = Range(NormalizedSorted(gt_list))

\* the branch for two lists or sets: lines 182-195
MatchCollections(pred_list, gt_list) ==
    NormalizedSorted(pred_list) = NormalizedSorted(gt_list)

\* the JSON text of a str: " is escaped (no backslash, control or non-ASCII characters)
JsonString(t) ==
    <<"\"">> \o JoinWith([k \in DOMAIN t |-> IF t[k] = "\"" THEN <<"\\", "\"">> ELSE <<t[k]>>],
                         <<>>) \o <<"\"">>

\* the JSON text of a scalar
JsonScalar(v) ==
    CASE v.kind = "str"  -> JsonString(v.text)
      [] v.kind = "none" -> <<"n","u","l","l">>
      [] v.kind = "inf"  -> (IF v.m < 0 THEN <<"-">> ELSE <<>>)
                                \o <<"I","n","f","i","n","i","t","y">>
      [] v.kind = "nan"  -> <<"N","a","N">>
      [] OTHER           -> NumStr(v)

\* the value stored under key in the pairs of a dict
ValueAt(pairs, key) == pairs[CHOOSE k \in DOMAIN pairs : pairs[k][1] = key][2]

\* json.dumps(d, sort_keys=True) of a dict with str keys and scalar values
json_dumps(pairs) ==
    The({<<"{">> \o JoinWith([k \in DOMAIN keys |->
                                 JsonString(keys[k]) \o <<":", " ">>
                                     \o JsonScalar(ValueAt(pairs, keys[k]))],
                             <<",", " ">>) \o <<"}">> :
            keys \in {SortTexts([k \in DOMAIN pairs |-> pairs[k][1]])}})

\* variant: a single None is not rejected and reaches the later rules
quasi_exact_match_nonelast(prediction, ground_truth, tolerance) ==
    IF IsNone(prediction) /\ IsNone(ground_truth) THEN TRUE
    ELSE IF IsNumeric(prediction) /\ IsNumeric(ground_truth)
         THEN NumbersWithin(prediction, ground_truth, tolerance)
    ELSE IF IsStr(prediction) /\ IsStr(ground_truth)
         THEN \E pred_num \in {extract_number(prediction.text)},
                 gt_num \in {extract_number(ground_truth.text)} :
                 MatchTexts(prediction.text, ground_truth.text, pred_num, gt_num, tolerance)
    ELSE IF IsStr(prediction) /\ IsNumeric(ground_truth)
         THEN \E pred_num \in {extract_number(prediction.text)} :
                 MatchTextNumber(prediction.text, ground_truth, pred_num, tolerance)
    ELSE IF IsNumeric(prediction) /\ IsStr(ground_truth)
         THEN \E gt_num \in {extract_number(ground_truth.text)} :
                 MatchTextNumber(ground_truth.text, prediction, gt_num, tolerance)
    ELSE IF IsCollection(prediction) /\ IsCollection(ground_truth)
         THEN MatchCollections(prediction.items, ground_truth.items)
    ELSE IF IsDict(prediction) /\ IsDict(ground_truth)
         THEN json_dumps(prediction.items) = json_dumps(ground_truth.items)
    ELSE normalize_string(StrOf(prediction)) = normalize_string(StrOf(ground_truth))

\* variant: no number is extracted from the expected text when the prediction is a number
quasi_exact_match_onesided(prediction, ground_truth, tolerance) ==
    IF IsNone(prediction) /\ IsNone(ground_truth) THEN TRUE
    ELSE IF IsNone(prediction) \/ IsNone(ground_truth) THEN FALSE
    ELSE IF IsNumeric(prediction) /\ IsNumeric(ground_truth)
         THEN NumbersWithin(prediction, ground_truth, tolerance)
    ELSE IF IsStr(prediction) /\ IsStr(ground_truth)
         THEN \E pred_num \in {extract_number(prediction.text)},
                 gt_num \in {extract_number(ground_truth.text)} :
                 MatchTexts(prediction.text, ground_truth.text, pred_num, gt_num, tolerance)
    ELSE IF IsStr(prediction) /\ IsNumeric(ground_truth)
         THEN \E pred_num \in {extract_number(prediction.text)} :
                 MatchTextNumber(prediction.text, ground_truth, pred_num, tolerance)
    ELSE IF IsCollection(prediction) /\ IsCollection(ground_truth)
         THEN MatchCollections(prediction.items, ground_truth.items)
    ELSE IF IsDict(prediction) /\ IsDict(ground_truth)
         THEN json_dumps(prediction.items) = json_dumps(ground_truth.items)
    ELSE normalize_string(StrOf(prediction)) = normalize_string(StrOf(ground_truth))

quasi_exact_match(prediction, ground_truth, tolerance) ==
    IF IsNone(prediction) /\ IsNone(ground_truth) THEN TRUE
    ELSE IF IsNone(prediction) \/ IsNone(ground_truth) THEN FALSE
    ELSE IF IsNumeric(prediction) /\ IsNumeric(ground_truth)
         THEN NumbersWithin(prediction, ground_truth, tolerance)
    ELSE IF IsStr(prediction) /\ IsStr(ground_truth)
         THEN \E pred_num \in {extract_number(prediction.text)},
                 gt_num \in {extract_number(ground_truth.text)} :
                 MatchTexts(prediction.text, ground_truth.text, pred_num, gt_num, tolerance)
    ELSE IF IsStr(prediction) /\ IsNumeric(ground_truth)
         THEN \E pred_num \in {extract_number(prediction.text)} :
                 MatchTextNumber(prediction.text, ground_truth, pred_num, tolerance)
    ELSE IF IsNumeric(prediction) /\ IsStr(ground_truth)
         THEN \E gt_num \in {extract_number(ground_truth.text)} :
                 MatchTextNumber(ground_truth.text, prediction, gt_num, tolerance)
    ELSE IF IsCollection(prediction) /\ IsCollection(ground_truth)
         THEN MatchCollections(prediction.items, ground_truth.items)
    ELSE IF IsDict(prediction) /\ IsDict(ground_truth)
         THEN json_dumps(prediction.items) = json_dumps(ground_truth.items)
    ELSE normalize_string(StrOf(prediction)) = normalize_string(StrOf(ground_truth))

(***************************************************************************)
(* Results of calls: a returned value or a raised exception                *)
(***************************************************************************)
ErrNotLoaded == "Dataset not loaded. Call load_dataset() first."

ErrSameLength == "Predictions and ground truths must have the same length"

ErrQuestions == "Questions must have the same length as predictions"

ErrCount == "Number of predictions must match number of ground truths"

ErrNoPredictions == "No predictions available. Provide predictions or evaluate first."

ErrLoad == "load_dataset failed"

ErrPersist == "OSError"

Return(v) == [ok |-> TRUE, err |-> "", val |-> v]

Raise(msg) == [ok |-> FALSE, err |-> msg, val |-> <<>>]

(***************************************************************************)
(* GAIAMetrics                                                             *)
(***************************************************************************)
\* greatest common divisor of a >= 0 and b > 0
GCD(a, b) == SetMax({g \in 1..b : a % g = 0 /\ b % g = 0})

\* the float a / b (b > 0) as a reduced fraction; 0.0 is <<0, 1>>
Ratio(a, b) == LET g == GCD(a, b) IN <<a \div g, b \div g>>

Zero == <<0, 1>>

\* sum(matches)
SumBools(matches) == Cardinality({k \in DOMAIN matches : matches[k]})

\* variant: pairs the two lists like zip(), without the length check
batch_quasi_exact_match_zip(preds, gts, tolerance) ==
    Return([k \in 1..Min2(Len(preds), Len(gts)) |->
               quasi_exact_match(preds[k], gts[k], tolerance)])

batch_quasi_exact_match(preds, gts, tolerance) ==
    IF Len(preds) # Len(gts) THEN Raise(ErrSameLength)
    ELSE Return([k \in 1..Len(preds) |-> quasi_exact_match(preds[k], gts[k], tolerance)])

accuracy(matches) ==
    IF matches = <<>> THEN Zero ELSE Ratio(SumBools(matches), Len(matches))

\* variant: counts the match results instead of summing them
MetricsOfLen(matches, tolerance) ==
    [total     |-> Len(matches),
     correct   |-> Len(matches),
     incorrect |-> 0,
     accuracy  |-> IF Len(matches) > 0 THEN Ratio(Len(matches), Len(matches)) ELSE Zero,
     matches   |-> matches,
     tolerance |-> tolerance]

\* the metrics dictionary: lines 66-77 (len(predictions) = len(matches))
MetricsOf(matches, tolerance) ==
    [total     |-> Len(matches),
     correct   |-> SumBools(matches),
     incorrect |-> Len(matches) - SumBools(matches),
     accuracy  |-> IF Len(matches) > 0 THEN Ratio(SumBools(matches), Len(matches)) ELSE Zero,
     matches   |-> matches,
     tolerance |-> tolerance]

calculate_metrics(preds, gts, tolerance) ==
    IF Len(preds) # Len(gts) THEN Raise(ErrSameLength)
    ELSE The({Return(MetricsOf(matches, tolerance)) :
                 matches \in {batch_quasi_exact_match(preds, gts, tolerance).val}})

\* truth value of an optional list argument: neither None nor empty
Truthy(optlist) == optlist # None /\ optlist[1] # <<>>

\* GAIAMetrics.get_detailed_results; qs is None or Some(list of questions)
metrics_get_detailed_results(preds, gts, qs, tolerance) ==
    IF Len(preds) # Len(gts) THEN Raise(ErrSameLength)
    ELSE IF Truthy(qs) /\ Len(qs[1]) # Len(preds) THEN Raise(ErrQuestions)
    ELSE Return([k \in 1..Len(preds) |->
                    [index        |-> k - 1,
                     prediction   |-> preds[k],
                     ground_truth |-> gts[k],
                     match        |-> quasi_exact_match(preds[k], gts[k], tolerance),
                     question     |-> IF Truthy(qs) THEN Some(qs[1][k]) ELSE None]])

(***************************************************************************)
(* State                                                                   *)
(***************************************************************************)
VARIABLES
    dataset,        \* GAIAEvaluator.dataset: None or Some(list of examples)
    predictions,    \* GAIAEvaluator.predictions
    ground_truths,  \* GAIAEvaluator.ground_truths
    questions,      \* GAIAEvaluator.questions
    results,        \* GAIAEvaluationTool.results: None or Some(record)
    pc,             \* position of the call in progress, "idle" between calls
    frame,          \* arguments and locals of the call in progress
    calls,          \* the agent.run invocations of the current evaluate_agent
    ret,            \* outcome of the last finished call
    ncalls,         \* number of top-level calls started
    args            \* arguments of a direct call of a GAIAMetrics function

evalVars == <<dataset, predictions, ground_truths, questions>>

ctlVars == <<pc, frame, calls, ncalls>>

vars == <<dataset, predictions, ground_truths, questions, results,
          pc, frame, calls, ret, ncalls, args>>

(***************************************************************************)
(* Inputs                                                                  *)
(***************************************************************************)
T42 == <<"4","2">>

T41 == <<"4","1">>

TParisDot == <<"P","a","r","i","s",".">>

Tparis == <<"p","a","r","i","s">>

Q1 == <<"q","1","?">>

Q2 == <<"q","2","?">>

Tolerances == {Dec(0, 0), Dec(1, 0)}

\* the sequences over S of length at most n
SeqsUpTo(S, n) == UNION {[1..k -> S] : k \in 0..n}

BatchPredictions == {Str(T42), Str(T41), Str(TParisDot)}

BatchGroundTruths == {Str(T42), Str(Tparis)}

BatchQuestions == {Q1, Q2}

NoCall == [op |-> "none", ok |-> TRUE, err |-> "", val |-> <<>>]

Outcome(op, r) == [op |-> op, ok |-> r.ok, err |-> r.err, val |-> r.val]

NoFrame == [fn |-> "none", tolerance |-> Dec(0, 0), max_examples |-> None,
            num_examples |-> 0, preds |-> <<>>, level |-> 0,
            export_results |-> FALSE, generate_report |-> FALSE]

NoArgs == [preds |-> <<>>, gts |-> <<>>, qs |-> None, tolerance |-> Dec(0, 0)]

(***************************************************************************)
(* Direct calls of the static GAIAMetrics functions                        *)
(***************************************************************************)
InitMetrics ==
    /\ dataset = None
    /\ predictions = <<>>
    /\ ground_truths = <<>>
    /\ questions = <<>>
    /\ results = None
    /\ pc = "idle"
    /\ frame = NoFrame
    /\ calls = <<>>
    /\ ret = NoCall
    /\ ncalls = 0
    /\ args \in [preds     : SeqsUpTo(BatchPredictions, MaxBatch),
                 gts       : SeqsUpTo(BatchGroundTruths, MaxBatch),
                 qs        : {None} \cup {Some(q) : q \in SeqsUpTo(BatchQuestions, MaxBatch)},
                 tolerance : Tolerances]

CallBatchMatch ==
    /\ ret' = Outcome("batch_quasi_exact_match",
                      batch_quasi_exact_match(args.preds, args.gts, args.tolerance))
    /\ UNCHANGED <<evalVars, results, ctlVars, args>>

CallCalculateMetrics ==
    /\ ret' = Outcome("calculate_metrics",
                      calculate_metrics(args.preds, args.gts, args.tolerance))
    /\ UNCHANGED <<evalVars, results, ctlVars, args>>

CallDetailedResults ==
    /\ ret' = Outcome("get_detailed_results",
                      metrics_get_detailed_results(args.preds, args.gts, args.qs, args.tolerance))
    /\ UNCHANGED <<evalVars, results, ctlVars, args>>

CallAccuracy ==
    /\ Len(args.preds) = Len(args.gts)
    /\ ret' = Outcome("accuracy",
                      Return(accuracy(batch_quasi_exact_match(args.preds, args.gts,
                                                              args.tolerance).val)))
    /\ UNCHANGED <<evalVars, results, ctlVars, args>>

NextMetrics ==
    \/ CallBatchMatch
    \/ CallCalculateMetrics
    \/ CallDetailedResults
    \/ CallAccuracy

SpecMetrics == InitMetrics /\ [][NextMetrics]_vars

(***************************************************************************)
(* Direct calls of quasi_exact_match                                       *)
(***************************************************************************)
TNone == <<"N","o","n","e">>

TAnswerParis == <<"T","h","e"," ","A","n","s","w","e","r"," ","i","s"," ",
                  "P","a","r","i","s",".">>

TBerlinList == <<"B","e","r","l","i","n",","," ","L","o","n","d","o","n",","," ",
                 "P","a","r","i","s">>

TLondonList == <<"L","o","n","d","o","n",",","B","e","r","l","i","n",",",
                 "p","a","r","i","s">>

TXY == <<"x",","," ","y">>

TXYComma == <<"x",","," ","y",",">>

TYX == <<" ","Y",",","x",".">>

TXX == <<"x",",","x",",","y">>

TXYY == <<"y",",","x",",","y">>

TAB == <<"a",","," ","b">>

TDollar1234 == <<"$","1",",","2","3","4">>

T1Comma234 == <<"1",",","2","3","4">>

T1234 == <<"1","2","3","4">>

T1Comma3 == <<"1",","," ","3">>

TVitaminA == <<"v","i","t","a","m","i","n"," ","a">>

TVitamin == <<"v","i","t","a","m","i","n">>

TParisSpaceDot == <<"p","a","r","i","s"," ",".">>

TInf == <<"i","n","f">>

TextInputs == {<<>>, TNone, T42, TParisDot, Tparis, TAnswerParis, TBerlinList,
                 TLondonList, TXY, TXYComma, TYX, TXX, TXYY, TAB, TDollar1234,
                 T1Comma234, T1234, T1Comma3, TVitaminA, TVitamin, TParisSpaceDot, TInf}

MatchNumbers == {IntV(0), IntV(1), IntV(2), IntV(42), IntV(1234), FloatV(0, 0), FloatV(5, 1),
                 FloatV(15, 1), FloatV(42, 0), InfV(1), InfV(-1), NanV}

MatchCollectionValues ==
    {ListV(<<>>), SetV(<<>>),
     ListV(<<Str(<<"b">>), Str(<<"a">>)>>), ListV(<<Str(<<"a">>), Str(<<"b">>)>>),
     ListV(<<Str(<<"x">>), Str(<<"x">>)>>), ListV(<<Str(<<"x">>)>>),
     ListV(<<Str(<<"y">>), Str(<<"x">>), Str(<<"x">>)>>),
     ListV(<<Str(<<"x">>), Str(<<"y">>), Str(<<"y">>)>>),
     ListV(<<Str(<<"B"," ">>), Str(<<"a",".">>)>>),
     ListV(<<IntV(1), NoneV>>), ListV(<<NoneV, FloatV(1, 0)>>),
     SetV(<<Str(<<"a">>), Str(<<"b">>)>>), SetV(<<Str(<<"x">>)>>)}

MatchDicts ==
    {DictV(<<>>),
     DictV(<< <<<<"a">>, IntV(1)>>, <<<<"b">>, IntV(2)>> >>),
     DictV(<< <<<<"b">>, IntV(2)>>, <<<<"a">>, IntV(1)>> >>),
     DictV(<< <<<<"a">>, IntV(1)>> >>),
     DictV(<< <<<<"a">>, FloatV(1, 0)>> >>),
     DictV(<< <<<<"a">>, IntV(2)>> >>),
     DictV(<< <<<<"b">>, IntV(1)>> >>),
     DictV(<< <<<<"a">>, Str(<<"x">>)>>, <<<<"B">>, NoneV>> >>)}

MatchValues ==
    {NoneV} \cup {Str(t) : t \in TextInputs} \cup MatchNumbers
        \cup MatchCollectionValues \cup MatchDicts

MatchTolerances == {Dec(0, 0), Dec(5, 1), Dec(1, 0), Dec(-1, 0)}

InitMatch ==
    /\ dataset = None
    /\ predictions = <<>>
    /\ ground_truths = <<>>
    /\ questions = <<>>
    /\ results = None
    /\ pc = "idle"
    /\ frame = NoFrame
    /\ calls = <<>>
    /\ ret = NoCall
    /\ ncalls = 0
    /\ args \in [prediction   : MatchValues,
                 ground_truth : MatchValues,
                 tolerance    : MatchTolerances]

CallMatch ==
    /\ ret' = Outcome("quasi_exact_match",
                      Return(quasi_exact_match(args.prediction, args.ground_truth,
                                               args.tolerance)))
    /\ UNCHANGED <<evalVars, results, ctlVars, args>>

\* normalize_string called on the prediction text
CallNormalizeString ==
    /\ IsStr(args.prediction)
    /\ ret' = Outcome("normalize_string", Return(normalize_string(args.prediction.text)))
    /\ UNCHANGED <<evalVars, results, ctlVars, args>>

\* GAIAMetrics.calculate_metrics called on the batch of the one pair
CallMetricsOfPair ==
    /\ ret' = Outcome("calculate_metrics",
                      calculate_metrics(<<args.prediction>>, <<args.ground_truth>>,
                                        args.tolerance))
    /\ UNCHANGED <<evalVars, results, ctlVars, args>>

NextMatch ==
    \/ CallMatch
    \/ CallNormalizeString
    \/ CallMetricsOfPair

SpecMatch == InitMatch /\ [][NextMatch]_vars

(***************************************************************************)
(* The corpus loader and the agent (external)                              *)
(***************************************************************************)
Examples == {[Question |-> Q1, Final_answer |-> Str(T42)],
             [Question |-> Q2, Final_answer |-> Str(Tparis)]}

\* what GAIADataset.load can hand out
Corpora == SeqsUpTo(Examples, MaxN)

TCode42 == <<"c","o","d","e"," ","4","2">>

\* what agent.run can do: return an answer or raise an exception with a message
AgentOutcomes ==
    {[raised |-> FALSE, value |-> v] : v \in {Str(T41), Str(TParisDot)}}
        \cup {[raised |-> TRUE, value |-> Str(msg)] : msg \in {TCode42}}

\* predictions a caller can hand to the evaluator
CallerPredictions == {Str(T42), Str(T41)}

CallerBatches == SeqsUpTo(CallerPredictions, MaxN)

LoaderOutcomes == {None} \cup {Some(c) : c \in Corpora}

MaxExamplesArgs == {None} \cup {Some(k) : k \in 0..MaxN}

Levels == {1}

\* export_results and generate_report of run: the defaults, or both off
RunFlags == {<<TRUE, TRUE>>, <<FALSE, FALSE>>}

ErrorPrefix == <<"E","r","r","o","r",":"," ">>

\* f"Error: {e}"
ErrorPlaceholder(e) == Str(ErrorPrefix \o StrOf(e))

(***************************************************************************)
(* GAIAEvaluator                                                           *)
(***************************************************************************)
get_questions(corpus) == [k \in 1..Len(corpus) |-> corpus[k].Question]

get_ground_truths(corpus) == [k \in 1..Len(corpus) |-> corpus[k].Final_answer]

\* variant: without the dataset guard
evaluate_predictions_noguard(ds, gts, p, tolerance) ==
    IF Len(p) # Len(gts) THEN Raise(ErrCount)
    ELSE calculate_metrics(p, gts, tolerance)

\* variant: the tolerance is not handed on to calculate_metrics
evaluate_predictions_notol(ds, gts, p, tolerance) ==
    IF ds = None THEN Raise(ErrNotLoaded)
    ELSE IF Len(p) # Len(gts) THEN Raise(ErrCount)
    ELSE calculate_metrics(p, gts, Dec(0, 0))

\* return value of evaluate_predictions; on success self.predictions becomes p
evaluate_predictions(ds, gts, p, tolerance) ==
    IF ds = None THEN Raise(ErrNotLoaded)
    ELSE IF Len(p) # Len(gts) THEN Raise(ErrCount)
    ELSE calculate_metrics(p, gts, tolerance)

\* number of agent invocations of evaluate_agent
num_examples(max_examples, n) ==
    IF max_examples = None THEN n ELSE Min2(max_examples[1], n)

\* GAIAEvaluator.get_detailed_results; popt is None or Some(predictions)
get_detailed_results(ds, stored, gts, qs, popt, tolerance) ==
    IF ds = None THEN Raise(ErrNotLoaded)
    ELSE LET p == IF popt = None THEN stored ELSE popt[1]
         IN  IF p = <<>> THEN Raise(ErrNoPredictions)
             ELSE metrics_get_detailed_results(p, gts, Some(qs), tolerance)

get_statistics(ds) ==
    IF ds = None THEN Raise(ErrNotLoaded)
    ELSE Return([total_examples |-> Len(ds[1])])

(***************************************************************************)
(* GAIAEvaluationTool                                                      *)
(***************************************************************************)
\* b in a
Contains(a, b) ==
    \E k \in 0..(Len(a) - Len(b)) : SubSeq(a, k + 1, k + Len(b)) = b

\* variant: the containment test is case-sensitive
PartialMatchCaseSensitive(pred, gt) ==
    Contains(StrOf(pred), StrOf(gt)) \/ Contains(StrOf(gt), StrOf(pred))

PartialMatch(pred, gt) ==
    LET pred_str == Lower(StrOf(pred))
        gt_str   == Lower(StrOf(gt))
    IN  Contains(pred_str, gt_str) \/ Contains(gt_str, pred_str)

\* zip() stops at the shorter list
_calculate_partial_matches(preds, gts) ==
    Cardinality({k \in 1..Min2(Len(preds), Len(gts)) : PartialMatch(preds[k], gts[k])})

\* the tolerance GAIAEvaluationTool.run hands to get_detailed_results
DetailTolerance(tolerance) == Dec(0, 0)

\* the results dictionary of run: lines 76-98
CompileResults(metrics, preds, gts, detailed, level, now) ==
    LET total_samples   == Len(preds)
        exact_matches   == SumBools(metrics.matches)
        partial_matches == _calculate_partial_matches(preds, gts)
    IN  [exact_match_rate   |-> IF total_samples > 0 THEN Ratio(exact_matches, total_samples) ELSE Zero,
         partial_match_rate |-> IF total_samples > 0 THEN Ratio(partial_matches, total_samples) ELSE Zero,
         exact_matches      |-> exact_matches,
         partial_matches    |-> partial_matches,
         total_samples      |-> total_samples,
         level              |-> level,
         metrics            |-> metrics,
         detailed_results   |-> detailed,
         timestamp          |-> now]

(***************************************************************************)
(* Operations                                                              *)
(***************************************************************************)
Init ==
    /\ dataset = None
    /\ predictions = <<>>
    /\ ground_truths = <<>>
    /\ questions = <<>>
    /\ results = None
    /\ pc = "idle"
    /\ frame = NoFrame
    /\ calls = <<>>
    /\ ret = NoCall
    /\ ncalls = 0
    /\ args = NoArgs

CanCall == pc = "idle" /\ ncalls < MaxCalls

\* variant: a tool that has compiled results refuses another run
RunAcceptedOnce == CanCall /\ results = None

\* GAIAEvaluationTool.run has no precondition on the state of the tool
RunAccepted == CanCall

\* GAIAEvaluator.load_dataset; the loader returns a corpus or raises
LoadDataset ==
    /\ CanCall
    /\ ncalls' = ncalls + 1
    /\ \E loaded \in LoaderOutcomes :
          IF loaded = None
          THEN /\ ret' = Outcome("load_dataset", Raise(ErrLoad))
               /\ UNCHANGED evalVars
          ELSE /\ dataset' = loaded
               /\ questions' = get_questions(loaded[1])
               /\ ground_truths' = get_ground_truths(loaded[1])
               /\ ret' = Outcome("load_dataset", Return(<<>>))
               /\ UNCHANGED predictions
    /\ args' = NoArgs
    /\ UNCHANGED <<results, pc, frame, calls>>

\* variant: the predictions are stored before the arguments are validated
EvaluatePredictionsStoreFirst ==
    /\ CanCall
    /\ ncalls' = ncalls + 1
    /\ \E p \in CallerBatches, t \in Tolerances :
          \E r \in {evaluate_predictions(dataset, ground_truths, p, t)} :
              /\ ret' = Outcome("evaluate_predictions", r)
              /\ predictions' = p
              /\ args' = [NoArgs EXCEPT !.preds = p, !.tolerance = t]
    /\ UNCHANGED <<dataset, ground_truths, questions, results, pc, frame, calls>>

\* GAIAEvaluator.evaluate_predictions called by a client
EvaluatePredictions ==
    /\ CanCall
    /\ ncalls' = ncalls + 1
    /\ \E p \in CallerBatches, t \in Tolerances :
          \E r \in {evaluate_predictions(dataset, ground_truths, p, t)} :
              /\ ret' = Outcome("evaluate_predictions", r)
              /\ predictions' = IF r.ok THEN p ELSE predictions
              /\ args' = [NoArgs EXCEPT !.preds = p, !.tolerance = t]
    /\ UNCHANGED <<dataset, ground_truths, questions, results, pc, frame, calls>>

\* GAIAEvaluator.get_detailed_results called by a client
GetDetailedResults ==
    /\ CanCall
    /\ ncalls' = ncalls + 1
    /\ \E popt \in {None} \cup {Some(p) : p \in CallerBatches},
          t \in Tolerances :
          /\ ret' = Outcome("evaluator.get_detailed_results",
                            get_detailed_results(dataset, predictions, ground_truths,
                                                 questions, popt, t))
          /\ args' = [NoArgs EXCEPT !.qs = popt, !.tolerance = t]
    /\ UNCHANGED <<evalVars, results, pc, frame, calls>>

\* GAIAEvaluator.get_statistics called by a client
GetStatistics ==
    /\ CanCall
    /\ ncalls' = ncalls + 1
    /\ ret' = Outcome("get_statistics", get_statistics(dataset))
    /\ args' = NoArgs
    /\ UNCHANGED <<evalVars, results, pc, frame, calls>>

\* GAIAEvaluator.evaluate_agent called by a client: lines 95-102
EvaluateAgent ==
    /\ CanCall
    /\ ncalls' = ncalls + 1
    /\ \E t \in Tolerances, mx \in MaxExamplesArgs :
          IF dataset = None
          THEN /\ ret' = Outcome("evaluate_agent", Raise(ErrNotLoaded))
               /\ UNCHANGED <<pc, frame, calls>>
          ELSE /\ pc' = "evaluating"
               /\ frame' = [NoFrame EXCEPT !.fn = "evaluate_agent", !.tolerance = t,
                                           !.max_examples = mx,
                                           !.num_examples = num_examples(mx, Len(dataset[1]))]
               /\ calls' = <<>>
               /\ ret' = NoCall
    /\ args' = NoArgs
    /\ UNCHANGED <<evalVars, results>>

\* GAIAEvaluationTool.run: lines 53-63, load_dataset and get_statistics
RunLoad ==
    /\ RunAccepted
    /\ ncalls' = ncalls + 1
    /\ \E level \in Levels, mx \in MaxExamplesArgs, t \in Tolerances,
          fl \in RunFlags,
          loaded \in LoaderOutcomes :
          IF loaded = None
          THEN /\ ret' = Outcome("run", Raise(ErrLoad))
               /\ UNCHANGED <<evalVars, pc, frame>>
          ELSE /\ dataset' = loaded
               /\ questions' = get_questions(loaded[1])
               /\ ground_truths' = get_ground_truths(loaded[1])
               /\ pc' = "loaded"
               /\ frame' = [NoFrame EXCEPT !.fn = "run", !.tolerance = t, !.max_examples = mx,
                                           !.level = level, !.export_results = fl[1],
                                           !.generate_report = fl[2]]
               /\ ret' = NoCall
               /\ UNCHANGED predictions
    /\ args' = NoArgs
    /\ UNCHANGED <<results, calls>>

\* GAIAEvaluationTool.run: lines 66-73, entering evaluate_agent (lines 95-102)
RunEvaluate ==
    /\ pc = "loaded"
    /\ pc' = "evaluating"
    /\ frame' = [frame EXCEPT !.num_examples = num_examples(frame.max_examples, Len(dataset[1]))]
    /\ calls' = <<>>
    /\ UNCHANGED <<evalVars, results, ret, ncalls, args>>

\* the prediction evaluate_agent records for one invocation: lines 110-117
RecordedPrediction(out) == IF out.raised THEN ErrorPlaceholder(out.value) ELSE out.value

\* variant: no try/except around agent.run, the exception leaves evaluate_agent
AgentStepNoCatch ==
    /\ pc = "evaluating"
    /\ Len(frame.preds) < frame.num_examples
    /\ \E out \in AgentOutcomes :
          LET i == Len(frame.preds)
          IN  /\ calls' = Append(calls, [index |-> i,
                                         question |-> dataset[1][i + 1].Question,
                                         outcome |-> out])
              /\ IF out.raised
                 THEN /\ pc' = "idle"
                      /\ ret' = Outcome(frame.fn, Raise("agent"))
                      /\ frame' = NoFrame
                 ELSE /\ frame' = [frame EXCEPT !.preds = Append(@, out.value)]
                      /\ UNCHANGED <<pc, ret>>
    /\ UNCHANGED <<evalVars, results, ncalls, args>>

\* one iteration of the loop of evaluate_agent: lines 104-117
AgentStep ==
    /\ pc = "evaluating"
    /\ Len(frame.preds) < frame.num_examples
    /\ \E out \in AgentOutcomes :
          LET i == Len(frame.preds)
          IN  /\ frame' = [frame EXCEPT !.preds = Append(@, RecordedPrediction(out))]
              /\ calls' = Append(calls, [index |-> i,
                                         question |-> dataset[1][i + 1].Question,
                                         outcome |-> out])
    /\ UNCHANGED <<evalVars, results, pc, ret, ncalls, args>>

\* after the loop: evaluate_predictions (line 122) and, inside run, lines 76-101
FinishEvaluate ==
    /\ pc = "evaluating"
    /\ Len(frame.preds) >= frame.num_examples
    /\ \E r  \in {evaluate_predictions(dataset, ground_truths, frame.preds, frame.tolerance)},
          dr \in {get_detailed_results(dataset, frame.preds, ground_truths, questions,
                                       None, DetailTolerance(frame.tolerance))} :
           /\ predictions' = IF r.ok THEN frame.preds ELSE predictions
           /\ IF frame.fn = "evaluate_agent" \/ ~r.ok
              THEN /\ ret' = Outcome(frame.fn, r)
                   /\ pc' = "idle"
                   /\ frame' = NoFrame
                   /\ UNCHANGED results
              ELSE IF ~dr.ok
              THEN /\ ret' = Outcome(frame.fn, dr)
                   /\ pc' = "idle"
                   /\ frame' = NoFrame
                   /\ UNCHANGED results
              ELSE /\ results' = Some(CompileResults(r.val, frame.preds, ground_truths,
                                                     dr.val, frame.level, ncalls))
                   /\ pc' = "scored"
                   /\ UNCHANGED <<ret, frame>>
    /\ UNCHANGED <<dataset, ground_truths, questions, calls, ncalls, args>>

\* GAIAEvaluationTool.get_results
get_results == results

\* variant: a failed export or report discards the compiled results
PersistDiscard ==
    /\ pc = "scored"
    /\ \E failed \in BOOLEAN :
          /\ failed => (frame.export_results \/ frame.generate_report)
          /\ ret' = Outcome("run", IF failed THEN Raise(ErrPersist) ELSE Return(results[1]))
          /\ results' = IF failed THEN None ELSE results
    /\ pc' = "idle"
    /\ frame' = NoFrame
    /\ UNCHANGED <<evalVars, calls, ncalls, args>>

\* GAIAEvaluationTool.run: lines 103-111, export, report and return
Persist ==
    /\ pc = "scored"
    /\ \E failed \in BOOLEAN :
          /\ failed => (frame.export_results \/ frame.generate_report)
          /\ ret' = Outcome("run", IF failed THEN Raise(ErrPersist) ELSE Return(results[1]))
    /\ pc' = "idle"
    /\ frame' = NoFrame
    /\ UNCHANGED <<evalVars, results, calls, ncalls, args>>

Next ==
    \/ LoadDataset
    \/ EvaluatePredictions
    \/ GetDetailedResults
    \/ GetStatistics
    \/ EvaluateAgent
    \/ RunLoad
    \/ RunEvaluate
    \/ AgentStep
    \/ FinishEvaluate
    \/ Persist

Spec == Init /\ [][Next]_vars

(***************************************************************************)
(* Properties of the GAIAMetrics functions (SpecMetrics)                   *)
(***************************************************************************)
\* indices at which the prediction matches the expected answer
MatchingIndices(preds, gts, tolerance) ==
    {k \in 1..Len(preds) : quasi_exact_match(preds[k], gts[k], tolerance)}

\* C4: for every batch of equal-length predictions and expected answers and
\* every tolerance, calculate_metrics returns total = batch length, correct =
\* number of true match results, correct + incorrect = total, accuracy =
\* correct / total (0 for the empty batch) and one match result per pair.
C4_MetricsInvariant ==
    (ret.op = "calculate_metrics" /\ Len(args.preds) = Len(args.gts)) =>
        /\ ret.ok
        /\ ret.val.total = Len(args.preds)
        /\ ret.val.correct =
               Cardinality(MatchingIndices(args.preds, args.gts, args.tolerance))
        /\ ret.val.correct + ret.val.incorrect = ret.val.total
        /\ ret.val.incorrect >= 0
        /\ ret.val.accuracy[2] > 0
        /\ ret.val.accuracy[1] * ret.val.total = ret.val.correct * ret.val.accuracy[2]
        /\ (ret.val.total = 0 => ret.val.accuracy[1] = 0)
        /\ Len(ret.val.matches) = ret.val.total
        /\ \A k \in 1..Len(args.preds) :
               ret.val.matches[k] = quasi_exact_match(args.preds[k], args.gts[k], args.tolerance)
        /\ ret.val.tolerance = args.tolerance

C4_Witness ==
    /\ ret.op = "calculate_metrics"
    /\ ret.ok
    /\ ret.val.total = 2
    /\ ret.val.correct = 1
    /\ ret.val.accuracy = <<1, 2>>

\* C5: batch_quasi_exact_match, calculate_metrics and get_detailed_results
\* raise the same-length ValueError whenever predictions and expected answers
\* differ in length, and return nothing in that case.
C5_ArityCheck ==
    (/\ ret.op \in {"batch_quasi_exact_match", "calculate_metrics", "get_detailed_results"}
     /\ Len(args.preds) # Len(args.gts)) =>
        /\ ~ret.ok
        /\ ret.err = ErrSameLength
        /\ ret.val = <<>>

C5_Witness ==
    /\ ret.op = "batch_quasi_exact_match"
    /\ Len(args.preds) = 2
    /\ Len(args.gts) = 1
    /\ ~ret.ok

\* C6: when a questions list is supplied to get_detailed_results and its
\* length differs from the number of predictions (an empty list with a
\* non-empty batch included), the call raises the length ValueError; when it
\* returns with questions supplied, record i carries question i.
C6_QuestionsArity ==
    (ret.op = "get_detailed_results" /\ args.qs # None) =>
        /\ Len(args.qs[1]) # Len(args.preds) =>
               (~ret.ok /\ ret.err \in {ErrSameLength, ErrQuestions})
        /\ ret.ok => \A k \in 1..Len(ret.val) : ret.val[k].question = Some(args.qs[1][k])

(***************************************************************************)
(* Properties of the evaluator and the tool (Spec)                         *)
(***************************************************************************)
\* the step in which evaluate_agent leaves its loop and scores
LeavesLoop == pc = "evaluating" /\ pc' # "evaluating"

\* C1: when the agent raises on example i of an evaluate_agent over the whole
\* corpus (no max_examples), the call still returns a summary with total = n,
\* prediction i is the placeholder with the error text, and match i is false.
C1_Resilience ==
    [][(LeavesLoop /\ frame.max_examples = None) =>
          \A k \in DOMAIN calls : calls[k].outcome.raised =>
              /\ IF frame.fn = "run" THEN pc' = "scored" ELSE ret'.ok
              /\ predictions'[k] = ErrorPlaceholder(calls[k].outcome.value)
              /\ LET summary == IF frame.fn = "run" THEN results'[1].metrics ELSE ret'.val
                 IN  /\ summary.total = Len(dataset[1])
                     /\ summary.matches[k] = FALSE]_vars

\* C2: over a loaded non-empty corpus of n examples with max_examples = k,
\* evaluate_agent (directly or inside run) invokes the agent min(k, n) times
\* and completes with a summary whose total is min(k, n).
C2_SampleCap ==
    [][(LeavesLoop /\ Len(dataset[1]) > 0) =>
          LET n == Len(dataset[1])
              c == IF frame.max_examples = None THEN n ELSE Min2(frame.max_examples[1], n)
          IN  /\ Len(calls) = c
              /\ IF frame.fn = "run"
                 THEN pc' = "scored" /\ results'[1].metrics.total = c
                 ELSE ret'.ok /\ ret'.val.total = c]_vars

\* in the loop, invocation k was made for example k and prediction k is its outcome
C3_Aligned ==
    pc = "evaluating" =>
        /\ Len(calls) = Len(frame.preds)
        /\ Len(calls) <= Max2(0, frame.num_examples)
        /\ \A k \in DOMAIN calls :
              /\ calls[k].index = k - 1
              /\ calls[k].question = dataset[1][k].Question
              /\ frame.preds[k] = IF calls[k].outcome.raised
                                  THEN Str(ErrorPrefix \o calls[k].outcome.value.text)
                                  ELSE calls[k].outcome.value

\* C3: evaluate_agent invokes the agent once per evaluated example in
\* increasing index order, a raised exception does not stop the later
\* invocations, the predictions are scored once, after the last invocation, and
\* prediction k is the outcome of the invocation for example k.
C3_Sequential ==
    /\ []C3_Aligned
    /\ [][/\ LeavesLoop => /\ Len(calls) = Max2(0, frame.num_examples)
                           /\ predictions' \in {frame.preds, predictions}
          /\ (pc = "evaluating" /\ pc' = "evaluating") =>
                 /\ Len(calls') = Len(calls) + 1
                 /\ SubSeq(calls', 1, Len(calls)) = calls
                 /\ UNCHANGED <<predictions, ret, results>>]_vars

C3_Witness ==
    /\ pc = "evaluating"
    /\ Len(calls) = 2
    /\ calls[1].outcome.raised
    /\ ~calls[2].outcome.raised

GuardedOps == {"evaluate_predictions", "evaluate_agent",
               "evaluator.get_detailed_results", "get_statistics"}

\* C7: on an evaluator whose load_dataset never completed, evaluate_predictions,
\* evaluate_agent, get_detailed_results and get_statistics raise the not-loaded
\* ValueError, and evaluate_agent does not invoke the agent.
C7_NotLoadedGuard ==
    dataset = None =>
        /\ pc = "idle"
        /\ calls = <<>>
        /\ predictions = <<>>
        /\ ret.op \in GuardedOps => (~ret.ok /\ ret.err = ErrNotLoaded)

C7_Witness ==
    /\ dataset = None
    /\ ncalls = 2
    /\ ret.op = "evaluate_agent"
    /\ ~ret.ok

\* C8: with a corpus of n examples loaded, evaluate_predictions(predictions)
\* raises the count ValueError when len(predictions) # n and otherwise returns
\* the metrics of the predictions against the n loaded expected answers.
C8_PredictionsMode ==
    (ret.op = "evaluate_predictions" /\ dataset # None) =>
        LET n == Len(dataset[1])
        IN  IF Len(args.preds) # n
            THEN ~ret.ok /\ ret.err = ErrCount
            ELSE /\ ret.ok
                 /\ ret.val.total = n
                 /\ Len(ret.val.matches) = n
                 /\ \A k \in 1..n :
                       ret.val.matches[k] =
                           quasi_exact_match(args.preds[k], dataset[1][k].Final_answer,
                                             args.tolerance)
                 /\ ret.val.correct = Cardinality({k \in 1..n : ret.val.matches[k]})
                 /\ ret.val.incorrect = n - ret.val.correct
                 /\ predictions = args.preds

C8_Witness ==
    /\ ret.op = "evaluate_predictions"
    /\ ret.ok
    /\ ret.val.total = 2
    /\ ret.val.correct = 1
    /\ args.tolerance = Dec(1, 0)

\* C9: in the results of a run with tolerance t, the detailed results and the
\* summary's matches have the length of the predictions, and detailed result i
\* has the match value i of the summary.
C9_AuditAgrees ==
    results # None =>
        LET R == results[1]
        IN  /\ Len(R.detailed_results) = R.total_samples
            /\ Len(R.metrics.matches) = R.total_samples
            /\ \A k \in 1..R.total_samples :
                  R.detailed_results[k].match = R.metrics.matches[k]

\* C10 as claimed: once a run has reached Scored (the tool holds results), the
\* same object accepts no further run, load or evaluation.
C10_NoRestart ==
    [][results # None => ~(pc = "idle" /\ pc' # "idle") /\ dataset' = dataset]_vars

RunTransitions == {<<"idle", "loaded">>, <<"idle", "evaluating">>,
                   <<"loaded", "evaluating">>, <<"evaluating", "scored">>,
                   <<"evaluating", "idle">>, <<"scored", "idle">>}

\* C10 amended: a call moves only along idle -> loaded -> evaluating -> scored
\* -> idle (returning early when a step raises), results are compiled only on
\* entering scored, and a tool at rest accepts another run whether or not it
\* already holds the results of an earlier one.
C10_Restartable ==
    /\ [](CanCall => ENABLED RunLoad)
    /\ [][/\ pc' # pc => <<pc, pc'>> \in RunTransitions
          /\ results' # results => (pc = "evaluating" /\ pc' = "scored")
          /\ pc' = "scored" => (frame.fn = "run" /\ results' # None)]_vars

C10_Witness ==
    /\ pc = "evaluating"
    /\ frame.fn = "run"
    /\ Len(frame.preds) = 1
    /\ results # None
    /\ ret = NoCall

\* C11: when the export or the report of a run fails, the I/O error reaches
\* the caller of run, and get_results still returns exactly the results that
\* were compiled before the persistence step.
C11_PersistenceIsolation ==
    [][pc = "scored" =>
          /\ get_results # None
          /\ get_results' = get_results
          /\ ret'.op = "run"
          /\ \/ ret' = Outcome("run", Raise(ErrPersist))
             \/ ret' = Outcome("run", Return(get_results[1]))]_vars

C11_Witness ==
    /\ pc = "idle"
    /\ ret = Outcome("run", Raise(ErrPersist))
    /\ get_results # None
    /\ get_results[1].total_samples > 0

(***************************************************************************)
(* Properties of quasi_exact_match (SpecMatch)                             *)
(***************************************************************************)
MatchCalled == ret.op = "quasi_exact_match"

\* number of occurrences of x in the list l
ItemCount(l, x) == Cardinality({k \in DOMAIN l : l[k] = x})

\* the lists l1 and l2 hold the same items with the same multiplicities,
\* i.e. their sorted sequences are equal
SameItems(l1, l2) ==
    /\ Len(l1) = Len(l2)
    /\ \A k \in DOMAIN l1 : ItemCount(l1, l1[k]) = ItemCount(l2, l1[k])

\* C12: whatever the tolerance, None matches None, and None matches no other
\* value (empty text, the text "None", 0, empty list, empty mapping, ...) in
\* either position; the rule wins over every later rule.
C12_AbsentValues ==
    MatchCalled =>
        /\ (IsNone(args.prediction) /\ IsNone(args.ground_truth)) => ret.val
        /\ (IsNone(args.prediction) # IsNone(args.ground_truth)) => ~ret.val

C12_Witness ==
    /\ MatchCalled
    /\ IsNone(args.ground_truth)
    /\ args.prediction = Str(TNone)
    /\ args.tolerance = Dec(1, 0)
    /\ ~ret.val

\* the decimal d as a multiple of 10^-E
Scaled(d, E) == d.m * Pow10(E - d.e)

\* b = a + t in Python arithmetic (an infinity or a NaN absorbs a finite t)
IsSumOf(b, a, t) ==
    IF ~IsFinite(a) THEN b = a
    ELSE /\ IsFinite(b)
         /\ LET E == Max2(Max2(a.e, b.e), t.e)
            IN  Scaled(DecOf(b), E) = Scaled(DecOf(a), E) + Scaled(t, E)

\* b = a + t + e for some e > 0, on finite numbers
Exceeds(b, a, t) ==
    /\ IsFinite(a) /\ IsFinite(b)
    /\ LET E == Max2(Max2(a.e, b.e), t.e)
       IN  Scaled(DecOf(b), E) > Scaled(DecOf(a), E) + Scaled(t, E)

\* C13: for numeric a and a tolerance t >= 0, a matches a + t, and a does not
\* match a + t + e for any e > 0.
C13_NumericTolerance ==
    (MatchCalled /\ IsNumeric(args.prediction) /\ IsNumeric(args.ground_truth)
        /\ args.tolerance.m >= 0) =>
        /\ IsSumOf(args.ground_truth, args.prediction, args.tolerance) => ret.val
        /\ Exceeds(args.ground_truth, args.prediction, args.tolerance) => ~ret.val

\* C14: every value matches itself at tolerance 0.
C14_Reflexive ==
    (MatchCalled /\ args.prediction = args.ground_truth /\ args.tolerance = Dec(0, 0))
        => ret.val

\* the texts a and b differ only by letter case, trailing punctuation and
\* surrounding whitespace
SameUpToSurface(a, b) ==
    Lower(StripEndPunct(Strip(a))) = Lower(StripEndPunct(Strip(b)))

\* C15: two texts that differ only by letter case, trailing punctuation or
\* surrounding whitespace match at tolerance 0, also when they contain commas
\* or digits.
C15_TextTolerance ==
    (MatchCalled /\ IsStr(args.prediction) /\ IsStr(args.ground_truth)
        /\ args.tolerance = Dec(0, 0)
        /\ SameUpToSurface(args.prediction.text, args.ground_truth.text))
        => ret.val

\* C16: the prediction "The Answer is Paris." matches the expected answer
\* "paris" at tolerance 0.
C16_Scenario1 ==
    (MatchCalled /\ args.prediction = Str(TAnswerParis)
        /\ args.ground_truth = Str(Tparis) /\ args.tolerance = Dec(0, 0))
        => ret.val

\* the numeric rule for two texts does not apply: not both yield a number
NoNumberOnBothSides(p, g) == extract_number(p) = None \/ extract_number(g) = None

\* C17: two texts that both contain a comma, and that do not both yield a
\* number, match iff their normalized comma-separated items are the same up to
\* order (equal sorted sequences); reordering, item case and spacing around the
\* commas do not matter.
C17_DelimitedLists ==
    (MatchCalled /\ IsStr(args.prediction) /\ IsStr(args.ground_truth)
        /\ HasComma(args.prediction.text) /\ HasComma(args.ground_truth.text)
        /\ NoNumberOnBothSides(args.prediction.text, args.ground_truth.text))
        => (ret.val <=> SameItems(NormalizeItems(SplitComma(args.prediction.text)),
                                  NormalizeItems(SplitComma(args.ground_truth.text))))

C17_Witness ==
    /\ MatchCalled
    /\ args.prediction = Str(TBerlinList)
    /\ args.ground_truth = Str(TLondonList)
    /\ ret.val

\* the normalized string forms of the elements of a collection
NormalizedForms(l) == [k \in DOMAIN l |-> normalize_string(StrOf(l[k]))]

\* C18: a list value and a comma-delimited text that hold the same items in
\* any order match at tolerance 0.
C18_ListAgainstText ==
    (MatchCalled /\ IsCollection(args.prediction) /\ IsStr(args.ground_truth)
        /\ HasComma(args.ground_truth.text) /\ args.tolerance = Dec(0, 0)
        /\ SameItems(NormalizedForms(args.prediction.items),
                     NormalizeItems(SplitComma(args.ground_truth.text))))
        => ret.val

\* C19: two collections (list or set) match iff the normalized string forms
\* of their elements are the same up to order, multiplicities included.
C19_Collections ==
    (MatchCalled /\ IsCollection(args.prediction) /\ IsCollection(args.ground_truth))
        => (ret.val <=> SameItems(NormalizedForms(args.prediction.items),
                                  NormalizedForms(args.ground_truth.items)))

C19_Witness ==
    /\ MatchCalled
    /\ args.prediction = ListV(<<Str(<<"b">>), Str(<<"a">>)>>)
    /\ args.ground_truth = ListV(<<Str(<<"a">>), Str(<<"b">>)>>)
    /\ ret.val

\* a == b on Python scalars: numbers compare by value, a NaN equals nothing
PyEqual(a, b) ==
    IF IsFinite(a) /\ IsFinite(b) THEN AbsDiffLeq(DecOf(a), DecOf(b), Dec(0, 0))
    ELSE a.kind # "nan" /\ a = b

KeysOf(pairs) == {pairs[k][1] : k \in DOMAIN pairs}

\* C20: two mappings match iff they have the same keys and equal values per
\* key, whatever the insertion order of the keys.
C20_Mappings ==
    (MatchCalled /\ IsDict(args.prediction) /\ IsDict(args.ground_truth))
        => (ret.val <=>
               /\ KeysOf(args.prediction.items) = KeysOf(args.ground_truth.items)
               /\ \A key \in KeysOf(args.prediction.items) :
                      PyEqual(ValueAt(args.prediction.items, key),
                              ValueAt(args.ground_truth.items, key)))

\* one side of the call is a text and the other a number
MixedCall ==
    \/ IsStr(args.prediction) /\ IsNumeric(args.ground_truth)
    \/ IsNumeric(args.prediction) /\ IsStr(args.ground_truth)

TextSide == IF IsStr(args.prediction) THEN args.prediction.text ELSE args.ground_truth.text

NumberSide == IF IsStr(args.prediction) THEN args.ground_truth ELSE args.prediction

\* C21: for a text against a number, when a number is found in the text the
\* result is abs(found - number) <= tolerance, else the normalized text is
\* compared with the normalized text form of the number; the result is the
\* same with the two sides exchanged.
C21_MixedTextNumber ==
    (MatchCalled /\ MixedCall) =>
        /\ HasDigit(TextSide) =>
              (ret.val <=> /\ IsFinite(NumberSide)
                           /\ AbsDiffLeq(extract_number(TextSide)[1], DecOf(NumberSide),
                                         args.tolerance))
        /\ ~HasDigit(TextSide) =>
              (ret.val <=> normalize_string(TextSide) = normalize_string(StrOf(NumberSide)))
        /\ ret.val = quasi_exact_match(args.ground_truth, args.prediction, args.tolerance)

C21_Witness ==
    /\ MatchCalled
    /\ args.prediction = FloatV(42, 0)
    /\ args.ground_truth = Str(T42)
    /\ args.tolerance = Dec(0, 0)
    /\ ret.val

\* C22: number-like text is compared by the full number it writes, thousands
\* separators and currency symbols removed: "$1,234" matches 1234, "1,234"
\* matches "1234", and "1,234" does not match 1, at tolerance 0.
C22_NumericNormalization ==
    (MatchCalled /\ args.tolerance = Dec(0, 0)) =>
        /\ (args.prediction = Str(TDollar1234) /\ args.ground_truth = IntV(1234)) => ret.val
        /\ (args.prediction = Str(T1Comma234) /\ args.ground_truth = Str(T1234)) => ret.val
        /\ (args.prediction = Str(T1Comma234) /\ args.ground_truth = IntV(1)) => ~ret.val

(***************************************************************************)
(* Further properties of the evaluator and the tool (Spec)                 *)
(***************************************************************************)
\* the text a occurs in the text b
OccursIn(a, b) == \E i \in 1..(Len(b) + 1) : \E j \in (i - 1)..Len(b) : SubSeq(b, i, j) = a

\* the pairs in which one lowercase string form contains the other
ContainingPairs(preds, gts) ==
    {k \in DOMAIN preds \cap DOMAIN gts :
        \/ OccursIn(Lower(StrOf(gts[k])), Lower(StrOf(preds[k])))
        \/ OccursIn(Lower(StrOf(preds[k])), Lower(StrOf(gts[k])))}

\* the pairs the strict rules accept
StrictPairs(preds, gts, tolerance) ==
    {k \in DOMAIN preds \cap DOMAIN gts : quasi_exact_match(preds[k], gts[k], tolerance)}

\* C23: the partial-match count of a run is the number of aligned pairs in
\* which the lowercase string form of one side contains that of the other; the
\* exact-match count, the exact-match rate and the accuracy are those of the
\* strict match results alone.
C23_PartialMatchSeparate ==
    pc = "scored" =>
        LET run     == results[1]
            partial == Cardinality(ContainingPairs(predictions, ground_truths))
            strict  == Cardinality(StrictPairs(predictions, ground_truths, frame.tolerance))
            total   == Len(predictions)
        IN  /\ run.partial_matches = partial
            /\ run.partial_match_rate = IF total > 0 THEN Ratio(partial, total) ELSE Zero
            /\ run.exact_matches = strict
            /\ run.metrics.correct = strict
            /\ run.exact_match_rate = IF total > 0 THEN Ratio(strict, total) ELSE Zero
            /\ run.metrics.accuracy = run.exact_match_rate

C23_Witness ==
    /\ pc = "scored"
    /\ results[1].total_samples = 2
    /\ results[1].partial_matches = 1
    /\ results[1].exact_matches = 2

\* C26: a run over a loaded corpus of no examples completes and yields
\* results with total 0, accuracy 0, exact and partial match rates 0 and no
\* detailed results.
C26_EmptyCorpus ==
    [][(pc = "evaluating" /\ frame.fn = "run" /\ dataset = Some(<<>>)
           /\ pc' # "evaluating") =>
          /\ pc' = "scored"
          /\ results' # None
          /\ results'[1].total_samples = 0
          /\ results'[1].metrics.total = 0
          /\ results'[1].metrics.accuracy = Zero
          /\ results'[1].exact_match_rate = Zero
          /\ results'[1].partial_match_rate = Zero
          /\ results'[1].detailed_results = <<>>]_vars

\* C27: between calls, the stored predictions are empty or as many as the
\* loaded expected answers and questions.
C27_StoredAlignment ==
    pc = "idle" =>
        \/ predictions = <<>>
        \/ /\ Len(predictions) = Len(ground_truths)
           /\ Len(predictions) = Len(questions)

\* a step in which evaluate_predictions raises: called by a client, or called
\* at the end of evaluate_agent
ScoringRejected ==
    /\ ~ret'.ok
    /\ ret'.err \in {ErrNotLoaded, ErrCount}
    /\ \/ pc = "idle" /\ ret'.op = "evaluate_predictions"
       \/ pc = "evaluating" /\ pc' = "idle"

\* C30: when evaluate_predictions raises (corpus not loaded, or a prediction
\* count different from the corpus size), the stored predictions, the corpus,
\* the questions and the expected answers are what they were before the call.
C30_RejectedUnchanged ==
    [][ScoringRejected =>
          /\ predictions' = predictions
          /\ dataset' = dataset
          /\ questions' = questions
          /\ ground_truths' = ground_truths]_vars

C30_Witness ==
    /\ pc = "idle"
    /\ ret.op = "evaluate_predictions"
    /\ ~ret.ok
    /\ ret.err = ErrCount
    /\ predictions # <<>>
    /\ args.preds # predictions

(***************************************************************************)
(* Further properties of quasi_exact_match (SpecMatch)                     *)
(***************************************************************************)
TextCall == MatchCalled /\ IsStr(args.prediction) /\ IsStr(args.ground_truth)

\* C24: for two texts that both yield a number, the result is
\* abs(first number of the prediction - first number of the expected) <=
\* tolerance, whatever else the texts hold, commas included; the comma-list
\* rule and the string comparison apply only when a side yields no number.
C24_NumbersFirst ==
    TextCall =>
        /\ (HasDigit(args.prediction.text) /\ HasDigit(args.ground_truth.text)) =>
              (ret.val <=> AbsDiffLeq(extract_number(args.prediction.text)[1],
                                      extract_number(args.ground_truth.text)[1],
                                      args.tolerance))
        /\ ~(HasDigit(args.prediction.text) /\ HasDigit(args.ground_truth.text)) =>
              (ret.val <=>
                  IF HasComma(args.prediction.text) /\ HasComma(args.ground_truth.text)
                  THEN SameItems(NormalizeItems(SplitComma(args.prediction.text)),
                                 NormalizeItems(SplitComma(args.ground_truth.text)))
                  ELSE normalize_string(args.prediction.text)
                           = normalize_string(args.ground_truth.text))

C24_Witness ==
    /\ MatchCalled
    /\ args.prediction = Str(T1Comma234)
    /\ args.ground_truth = Str(T1Comma3)
    /\ args.tolerance = Dec(0, 0)
    /\ ret.val

\* C25: normalize_string removes an article only at the beginning of the
\* text: "vitamin a" keeps its "a" and does not match "vitamin".
C25_LeadingArticleOnly ==
    /\ (ret.op = "normalize_string" /\ args.prediction = Str(TVitaminA))
          => ret.val = TVitaminA
    /\ (MatchCalled /\ args.prediction = Str(TVitaminA)
           /\ args.ground_truth = Str(TVitamin))
          => ~ret.val

\* t <= u on decimals
TolLeq(t, u) == t.m * Pow10(u.e) <= u.m * Pow10(t.e)

\* the tolerances of the model that are at least t
Raised(t) == {u \in MatchTolerances : TolLeq(t, u)}

\* C28: a pair that matches at a tolerance t >= 0 matches at every tolerance
\* t' >= t, and the correct count of calculate_metrics on the same batch does
\* not decrease when the tolerance is raised.
C28_ToleranceMonotone ==
    /\ (MatchCalled /\ ret.val /\ args.tolerance.m >= 0) =>
          \A u \in Raised(args.tolerance) :
              quasi_exact_match(args.prediction, args.ground_truth, u)
    /\ (ret.op = "calculate_metrics" /\ args.tolerance.m >= 0) =>
          \A u \in Raised(args.tolerance) :
              calculate_metrics(<<args.prediction>>, <<args.ground_truth>>, u).val.correct
                  >= ret.val.correct

C28_Witness ==
    /\ MatchCalled
    /\ args.prediction = FloatV(5, 1)
    /\ args.ground_truth = IntV(1)
    /\ args.tolerance = Dec(5, 1)
    /\ ret.val
    /\ ~quasi_exact_match(args.prediction, args.ground_truth, Dec(0, 0))

\* C29: normalize_string applied to its own result changes nothing.
C29_Idempotent ==
    ret.op = "normalize_string" => normalize_string(ret.val) = ret.val

====
